---- MODULE Spec2Model ----
(***************************************************************************)
(* The Markov synthesis engine of word_up.py: build_markov_chain followed  *)
(* by generate_words_from_markov, as main calls them (lines 127-128).      *)
(* Words and prefixes are sequences of one-character strings; the model is *)
(* a function from the prefixes present as keys of the defaultdict to      *)
(* Counters, each a function from the characters present to their counts.  *)
(***************************************************************************)
EXTENDS Integers, Sequences, FiniteSets, TLC

\* ------------------------------------------------------------ constants

\* word_up.py:20
MIN_WORD_LEN == 4
\* word_up.py:22
EXPANSION_MULTIPLIER == 30
\* word_up.py:99, the literal of range(20)
MAX_SYNTH_LEN == 20

\* ------------------------------------------------------------ bounds

\* the largest seed set drawn
MaxSeedSize == 2
\* orders 0..MaxOrder are drawn (the default of the code is 2)
MaxOrder == 2
\* explicit target counts -1..MaxCount are drawn, besides the one main passes
MaxCount == 2

\* the words seed sets are drawn from: the scenario of three rhyming words,
\* a word that recombines with them, a word shorter than MIN_WORD_LEN, and a
\* word whose model has a cycle
SeedWords ==
    { <<"b","a","n","k">>, <<"r","a","n","k">>, <<"t","a","n","k">>,
      <<"r","a","n","d">>, <<"o","x">>, <<"z","z","z">> }

Scenario == { <<"b","a","n","k">>, <<"r","a","n","k">>, <<"t","a","n","k">> }

\* a seed whose model produces words that are not seed words (band, rank)
Recombining == { <<"b","a","n","k">>, <<"r","a","n","d">> }

SeedSets ==
    { s \in SUBSET SeedWords : Cardinality(s) <= MaxSeedSize } \cup {Scenario, Recombining}

\* the count main passes (line 128) and the explicit ones
MainCount(words) == Cardinality(words) * EXPANSION_MULTIPLIER

Counts(words) == (-1 .. MaxCount) \cup {MainCount(words)}

\* ------------------------------------------------------------ helpers

\* "~" * order (a non-positive repeat count gives the empty string)
Sentinel(order) == [j \in 1..order |-> "~"]

\* s[a:b] of Python for 0 <= a, 0 <= b
PySlice(s, a, b) == SubSeq(s, a + 1, IF b < Len(s) THEN b ELSE Len(s))

\* padded = "~" * order + word
Padded(w, order) == Sentinel(order) \o w

EmptyCounter == <<>>

\* model[prefix] of a defaultdict(Counter): the lookup of a missing key
\* stores an empty Counter under it
Lookup(m, p) == IF p \in DOMAIN m THEN m ELSE (p :> EmptyCounter) @@ m

\* the slip "model[prefix][next_char] = 1": an entry is set, not incremented
IncrAssign(m, p, c) ==
    LET m1 == Lookup(m, p)
    IN  (p :> ((c :> 1) @@ m1[p])) @@ m1

\* model[prefix][next_char] += 1 (a Counter counts a missing character as 0)
Incr(m, p, c) ==
    LET m1 == Lookup(m, p)
        n  == IF c \in DOMAIN m1[p] THEN m1[p][c] ELSE 0
    IN  (p :> ((c :> n + 1) @@ m1[p])) @@ m1

\* ------------------------------------------------------------ state

VARIABLES
    seed,      \* words, the argument of build_markov_chain
    order,     \* the order both functions are called with
    count,     \* the count generate_words_from_markov is called with
    pc,        \* where the engine is
    model,     \* the defaultdict(Counter)
    todo,      \* words the outer loop of the build has not reached
    bword,     \* word of the build's outer loop
    i,         \* i of the build's inner loop
    results,   \* results
    prefix,    \* prefix
    word,      \* word
    iter       \* iterations of "for _ in range(20)" begun

vars == <<seed, order, count, pc, model, todo, bword, i, results, prefix, word, iter>>

\* ------------------------------------------------------------ build_markov_chain

\* the slip of a window that starts one position late
BuildPrefixLate(padded, k, ord) == PySlice(padded, k + 1, k + 1 + ord)

\* prefix = padded[i:i+order]
BuildPrefix(padded, k, ord) == PySlice(padded, k, k + ord)

\* the slip of reading the character from the padded word
NextCharPadded(w, padded, k) == padded[k + 1]

\* next_char = word[i]
NextChar(w, padded, k) == w[k + 1]

\* the state at the call of build_markov_chain(seed, order), before the call
\* of generate_words_from_markov(model, count, order)
InitWith(seeds, orders) ==
    /\ seed \in seeds
    /\ order \in orders
    /\ count \in Counts(seed)
    /\ pc = "build"
    /\ model = <<>>
    /\ todo = seed
    /\ bword = <<>>
    /\ i = 0
    /\ results = {}
    /\ prefix = <<>>
    /\ word = <<>>
    /\ iter = 0

Init == InitWith(SeedSets, 0..MaxOrder)

\* for word in words: (a set is iterated in an order the code does not choose)
BuildNextWord ==
    /\ pc = "build"
    /\ i = Len(bword)
    /\ \E w \in todo :
          /\ bword' = w
          /\ todo' = todo \ {w}
    /\ i' = 0
    /\ UNCHANGED <<seed, order, count, pc, model, results, prefix, word, iter>>

\* one iteration of "for i in range(len(word))"
BuildChar ==
    /\ pc = "build"
    /\ i < Len(bword)
    /\ LET padded == Padded(bword, order)
       IN  model' = Incr(model, BuildPrefix(padded, i, order), NextChar(bword, padded, i))
    /\ i' = i + 1
    /\ UNCHANGED <<seed, order, count, pc, todo, bword, results, prefix, word, iter>>

\* return model
BuildReturn ==
    /\ pc = "build"
    /\ i = Len(bword)
    /\ todo = {}
    /\ pc' = "built"
    /\ UNCHANGED <<seed, order, count, model, todo, bword, i, results, prefix, word, iter>>

\* ------------------------------------------------------------ generate_words_from_markov

\* the slip of "<=" in the loop condition
WhileCondLe(res, n) == Cardinality(res) <= n

\* len(results) < count
WhileCond(res, n) == Cardinality(res) < n

\* the slip of a filter that lets every word through
QualifiesAll(w) == TRUE

\* len(word) >= MIN_WORD_LEN
Qualifies(w) == Len(w) >= MIN_WORD_LEN

\* random.choices(list(choices), weights=choices.values()): a character of
\* positive weight
Choosable(choices) == { c \in DOMAIN choices : choices[c] > 0 }

\* prefix[1:] + next_char
Slide(p, c) == PySlice(p, 1, Len(p)) \o <<c>>

\* results = set()
GenerateCall ==
    /\ pc = "built"
    /\ pc' = "while"
    /\ results' = {}
    /\ UNCHANGED <<seed, order, count, model, todo, bword, i, prefix, word, iter>>

\* while len(results) < count: prefix = "~" * order; word = ""
WhileTest ==
    /\ pc = "while"
    /\ IF WhileCond(results, count)
       THEN /\ pc' = "for"
            /\ prefix' = Sentinel(order)
            /\ word' = <<>>
            /\ iter' = 0
       ELSE /\ pc' = "done"
            /\ UNCHANGED <<prefix, word, iter>>
    /\ UNCHANGED <<seed, order, count, model, todo, bword, i, results>>

\* an iteration of the inner loop that samples next_char = c
ForSample(c) ==
    /\ pc = "for"
    /\ iter < MAX_SYNTH_LEN
    /\ prefix \in DOMAIN model
    /\ c \in Choosable(model[prefix])
    /\ word' = Append(word, c)
    /\ prefix' = Slide(prefix, c)
    /\ iter' = iter + 1
    /\ UNCHANGED <<seed, order, count, pc, model, todo, bword, i, results>>

\* an iteration of the inner loop that finds no choices and breaks; the
\* lookup itself stores the missing prefix
ForBreak ==
    /\ pc = "for"
    /\ iter < MAX_SYNTH_LEN
    /\ Lookup(model, prefix)[prefix] = EmptyCounter
    /\ model' = Lookup(model, prefix)
    /\ pc' = "check"
    /\ UNCHANGED <<seed, order, count, todo, bword, i, results, prefix, word, iter>>

\* range(20) is exhausted
ForEnd ==
    /\ pc = "for"
    /\ iter >= MAX_SYNTH_LEN
    /\ pc' = "check"
    /\ UNCHANGED <<seed, order, count, model, todo, bword, i, results, prefix, word, iter>>

\* if len(word) >= MIN_WORD_LEN: results.add(word)
CheckLen ==
    /\ pc = "check"
    /\ results' = IF Qualifies(word) THEN results \cup {word} ELSE results
    /\ pc' = "while"
    /\ UNCHANGED <<seed, order, count, model, todo, bword, i, prefix, word, iter>>

Sample == \E c \in Choosable(Lookup(model, prefix)[prefix]) : ForSample(c)

Next ==
    \/ BuildNextWord
    \/ BuildChar
    \/ BuildReturn
    \/ GenerateCall
    \/ WhileTest
    \/ Sample
    \/ ForBreak
    \/ ForEnd
    \/ CheckLen

Spec == Init /\ [][Next]_vars

\* ------------------------------------------------------------ what a model can produce

\* the words with which the inner loop can end when it stands at word w and
\* prefix p with n iterations of range(20) left: it ends at a prefix without
\* choices or when the range is exhausted
RECURSIVE Completions(_, _, _, _)
Completions(m, w, p, n) ==
    LET ch == IF p \in DOMAIN m THEN Choosable(m[p]) ELSE {}
    IN  IF n = 0 \/ ch = {}
        THEN {w}
        ELSE UNION { Completions(m, Append(w, c), Slide(p, c), n - 1) : c \in ch }

\* the words an attempt can add to results
Producible(m, ord) ==
    { w \in Completions(m, <<>>, Sentinel(ord), MAX_SYNTH_LEN) : Qualifies(w) }

\* every value word can take during an attempt
RECURSIVE Partials(_, _, _, _)
Partials(m, w, p, n) ==
    LET ch == IF p \in DOMAIN m THEN Choosable(m[p]) ELSE {}
    IN  IF n = 0 \/ ch = {}
        THEN {w}
        ELSE {w} \cup UNION { Partials(m, Append(w, c), Slide(p, c), n - 1) : c \in ch }

\* build_markov_chain as a function of its arguments: the loops of lines 85-90
RECURSIVE BuildWord(_, _, _, _)
BuildWord(m, w, ord, k) ==
    IF k >= Len(w)
    THEN m
    ELSE BuildWord(Incr(m, BuildPrefix(Padded(w, ord), k, ord), NextChar(w, Padded(w, ord), k)),
                   w, ord, k + 1)

RECURSIVE BuildAll(_, _, _)
BuildAll(m, words, ord) ==
    IF words = {}
    THEN m
    ELSE LET w == CHOOSE x \in words : TRUE
         IN  BuildAll(BuildWord(m, w, ord, 0), words \ {w}, ord)

\* ------------------------------------------------------------ fairness

\* the seed sets and orders of the runs checked for liveness
LiveSeedSets ==
    { s \in SeedSets : s \subseteq Scenario \/ Cardinality(s) <= 1 } \cup {Recombining}

LiveOrders == 1..MaxOrder

\* the values of word that a draw among two or more characters leads to
DrawsOf(m, ord) ==
    LET ws == Partials(m, <<>>, Sentinel(ord), MAX_SYNTH_LEN)
    IN  { w \in ws : /\ w # <<>>
                     /\ \E v \in ws : /\ v # w
                                      /\ Len(v) = Len(w)
                                      /\ SubSeq(v, 1, Len(v) - 1) = SubSeq(w, 1, Len(w) - 1) }

Draws == UNION { DrawsOf(BuildAll(<<>>, s, o), o) : s \in LiveSeedSets, o \in LiveOrders }

\* The interpreter runs every statement it reaches (weak fairness of each
\* step), and random.choices gives every character of positive weight a
\* positive probability at each draw, so a draw that is possible again and
\* again at the same word is eventually made (strong fairness of each draw).
Fairness ==
    /\ WF_vars(BuildNextWord)
    /\ WF_vars(BuildChar)
    /\ WF_vars(BuildReturn)
    /\ WF_vars(GenerateCall)
    /\ WF_vars(WhileTest)
    /\ WF_vars(Sample)
    /\ WF_vars(ForBreak)
    /\ WF_vars(ForEnd)
    /\ WF_vars(CheckLen)
    /\ \A w \in Draws : SF_vars(ForSample(w[Len(w)]) /\ word' = w)

FairSpec == InitWith(LiveSeedSets, LiveOrders) /\ [][Next]_vars /\ Fairness

\* ------------------------------------------------------------ properties

\* the generator has been called and no word has been added yet
GenStart == pc = "while" /\ results = {}

\* the characters that occur in the words of a set
CharsOf(words) == { w[k] : <<w, k>> \in { x \in words \X (1..MAX_SYNTH_LEN) : x[2] <= Len(x[1]) } }

RECURSIVE SumLen(_)
SumLen(words) ==
    IF words = {}
    THEN 0
    ELSE LET w == CHOOSE x \in words : TRUE
         IN  Len(w) + SumLen(words \ {w})

RECURSIVE SumCounter(_, _)
SumCounter(ctr, cs) ==
    IF cs = {}
    THEN 0
    ELSE LET c == CHOOSE x \in cs : TRUE
         IN  ctr[c] + SumCounter(ctr, cs \ {c})

RECURSIVE SumModel(_, _)
SumModel(m, ps) ==
    IF ps = {}
    THEN 0
    ELSE LET p == CHOOSE x \in ps : TRUE
         IN  SumCounter(m[p], DOMAIN m[p]) + SumModel(m, ps \ {p})

\* the reference table of C7: the positions of the seed words, the order
\* characters that precede a position in the sentinel-padded word, and the
\* number of positions with a given context and character
Positions(words) == { x \in words \X (1..MAX_SYNTH_LEN) : x[2] <= Len(x[1]) }

Preceding(w, k, ord) ==
    [j \in 1..ord |-> IF k - ord + j - 1 >= 1 THEN w[k - ord + j - 1] ELSE "~"]

RefCount(words, ord, p, c) ==
    Cardinality({ x \in Positions(words) :
                    /\ x[1][x[2]] = c
                    /\ Preceding(x[1], x[2], ord) = p })

RefTable(words, ord) ==
    LET keys == { Preceding(x[1], x[2], ord) : x \in Positions(words) }
    IN  [p \in keys |->
            [c \in { x[1][x[2]] : x \in { y \in Positions(words) :
                                            Preceding(y[1], y[2], ord) = p } } |->
                RefCount(words, ord, p, c)]]

\* C1: for the model built from the empty seed set and any target count, the
\* generator, once called, eventually returns, and returns the empty set.
C1_EmptySeedTerminates ==
    (GenStart /\ seed = {}) ~> (pc = "done" /\ results = {})

\* C2: when the model can produce fewer distinct words of length
\* MIN_WORD_LEN..20 than the target count, the generator eventually returns,
\* with words the model can produce. (Stated for a non-empty seed of words
\* of at least MIN_WORD_LEN characters; the other seeds are C1 and C4.)
C2_UnreachableTargetReturns ==
    (/\ GenStart
     /\ seed # {} /\ \A w \in seed : Len(w) >= MIN_WORD_LEN
     /\ Cardinality(Producible(model, order)) < count)
        ~> (pc = "done" /\ results \subseteq Producible(model, order))

\* C3: under an invalid configuration (MIN_WORD_LEN > 20, order < 1, or a
\* negative target count, which is what a negative multiplier gives) the
\* engine takes no step of the build and never reaches the generator: it is
\* still where it started.
InvalidConfig == MIN_WORD_LEN > MAX_SYNTH_LEN \/ order < 1 \/ count < 0

C3_InvalidConfigFailsFast ==
    InvalidConfig => (pc = "build" /\ todo = seed /\ model = <<>>)

\* C4: for a non-empty seed set whose words are all shorter than
\* MIN_WORD_LEN and the count main passes, the generator eventually returns,
\* with the empty set.
AllShort(words) == words # {} /\ \A w \in words : Len(w) < MIN_WORD_LEN

C4_ShortSeedReturnsEmpty ==
    (GenStart /\ AllShort(seed) /\ count = MainCount(seed))
        ~> (pc = "done" /\ results = {})

\* C5: in every state every word of results has a length in
\* MIN_WORD_LEN..20, and the word under construction has at most 20
\* characters.
C5_LengthBounds ==
    /\ \A w \in results : MIN_WORD_LEN <= Len(w) /\ Len(w) <= MAX_SYNTH_LEN
    /\ Len(word) <= MAX_SYNTH_LEN

\* a word of the maximal length has been added and a word that is too short
\* has just been dropped
C5_Witness ==
    /\ pc = "while"
    /\ \E w \in results : Len(w) = MAX_SYNTH_LEN
    /\ Len(word) >= 1 /\ Len(word) < MIN_WORD_LEN /\ word \notin results

\* C6: every character of every word of results (and of the word under
\* construction) occurs in some seed word; the sentinel is never emitted.
C6_AlphabetClosure ==
    \A w \in results \cup {word} :
        \A k \in 1..Len(w) : w[k] \in CharsOf(seed) /\ w[k] # "~"

\* the generator has returned a word of MIN_WORD_LEN characters that is not
\* a seed word
C6_Witness ==
    /\ pc = "done"
    /\ \E w \in results : w \notin seed /\ Len(w) = MIN_WORD_LEN

\* C7: for order >= 1, the model build_markov_chain returns is the reference
\* table; for the seed {bank, rank, tank} and order 2 it maps "~~" to
\* {b:1, r:1, t:1} and "an" to {k:3}.
C7_BuildIsReferenceTable ==
    (pc = "built" /\ order >= 1) =>
        /\ model = RefTable(seed, order)
        /\ (seed = Scenario /\ order = 2) =>
              /\ model[<<"~", "~">>] = [c \in {"b", "r", "t"} |-> 1]
              /\ model[<<"a", "n">>] = [c \in {"k"} |-> 3]

\* the build of the scenario has returned
C7_Witness == pc = "built" /\ seed = Scenario /\ order = 2

\* C8: in every state every prefix that is a key of the model has a
\* character of count >= 1.
C8_NoEmptyTable ==
    \A p \in DOMAIN model : \E c \in DOMAIN model[p] : model[p][c] >= 1

\* C9: for order >= 1, whenever the build stands between two words or has
\* returned, the sum of all counts is the total length of the words
\* processed so far; inside a word it is that plus the positions done.
C9_CountConservation ==
    (pc \in {"build", "built"} /\ order >= 1) =>
        /\ SumModel(model, DOMAIN model) = SumLen((seed \ todo) \ {bword}) + i
        /\ i = Len(bword) => SumModel(model, DOMAIN model) = SumLen(seed \ todo)
        /\ pc = "built" => SumModel(model, DOMAIN model) = SumLen(seed)

\* the build has returned for a seed of two words or more, one of which
\* repeats a (prefix, character) pair of another
C9_Witness ==
    /\ pc = "built"
    /\ order >= 1
    /\ Cardinality(seed) >= 2
    /\ \E p \in DOMAIN model : \E c \in DOMAIN model[p] : model[p][c] >= 2

====
